---- MODULE Spec2Model ----
(***************************************************************************)
(* Track Splitter plugin (track_splitter_plugin.py): one invocation of     *)
(* TrackSplitterPlugin.Run on a board, as a state machine.                 *)
(*                                                                         *)
(* Lengths on the board are integers in KiCad internal units (IU, nm).     *)
(* Lengths typed into the dialog are millimetre values; they are held here *)
(* as integer counts of 1e-7 mm, so that pcbnew.FromMM rounds.             *)
(* Python floats are modelled exactly: offsets are multiples of 1/2 and    *)
(* are held doubled (Offset2); unit vectors are held as the rational       *)
(* direction/length, which is exact for the segments of Catalog (their     *)
(* lengths are integers).                                                  *)
(* The pcbnew calls (GetTracks, GROUP, TRACK, Add, Remove, FromMM) are     *)
(* taken to do what their names and the plugin's use of them say.          *)
(***************************************************************************)
EXTENDS Integers, Sequences, FiniteSets, TLC

\* ------------------------------------------------------------------ bounds
\* Largest number of items on the board when the plugin starts.
MaxTracks == 2
\* Largest "Number of Splits" the operator types.
MaxSplits == 3

\* ------------------------------------------------------- board vocabulary
Pt(px, py) == [x |-> px, y |-> py]

\* Layers F.Cu and B.Cu.
F_Cu == 0
B_Cu == 31

\* Net codes of the board and their names (code 0 is the unconnected net).
NetCodes == 0..2
NetNameOf(code) == IF code = 1 THEN "GND" ELSE IF code = 2 THEN "VCC" ELSE ""

\* What board.GetTracks() can enumerate: straight tracks, vias and arcs.
\* A via has one position (start = end); an arc has distinct ends.
Item(kd, s, e, l, n, w) ==
    [kind |-> kd, start |-> s, end |-> e, layer |-> l, net |-> n, width |-> w]

Catalog ==
    { Item("TRACK", Pt(0, 0),    Pt(1000, 0),   F_Cu, 1, 250000),
      Item("TRACK", Pt(200, 900), Pt(200, 100), B_Cu, 1, 250000),
      Item("TRACK", Pt(10, 20),  Pt(310, 420),  F_Cu, 1, 300000),
      Item("TRACK", Pt(5, 5),    Pt(5, 5),      F_Cu, 1, 250000),
      Item("VIA",   Pt(7, 7),    Pt(7, 7),      F_Cu, 1, 600000),
      Item("ARC",   Pt(500, 0),  Pt(-500, 0),   B_Cu, 1, 250000),
      Item("TRACK", Pt(0, 50),   Pt(1000, 50),  F_Cu, 2, 250000) }

WithId(it, n) ==
    [id |-> n, kind |-> it.kind, start |-> it.start, end |-> it.end,
     layer |-> it.layer, net |-> it.net, width |-> it.width]

NoTrack == WithId(Item("NONE", Pt(0, 0), Pt(0, 0), 0, 0, 0), 0)

\* track.GetNetname()
GetNetname(t) == NetNameOf(t.net)

\* ------------------------------------------------------ dialog vocabulary
\* SettingsDialog: the net choice lists the non-empty net names.
NetChoices == { NetNameOf(c) : c \in NetCodes } \ {""}

\* Lengths typed by the operator, in units of 1e-7 mm.
InputPerIU == 10
WidthInputs == {-14, 0, 1500014, 1400000}
SepInputs == {-14, 0, 200000}
SplitInputs == -1..MaxSplits

Settings ==
    [net_name : NetChoices, split_width : WidthInputs,
     internal_sep : SepInputs, num_splits : SplitInputs]

NoSettings == [net_name |-> "", split_width |-> 0, internal_sep |-> 0, num_splits |-> 0]

\* --------------------------------------------------------------- messages
MsgNone == "none"
MsgInvalidInput == "Error: Invalid input. Please check your numbers."
MsgSplits == "Error: Number of splits must be at least 1."
MsgNoTracks == "Info: No straight tracks found on net"
MsgFinished == "Info: Track Splitter Finished"
MsgZeroDivision == "ZeroDivisionError: float division by zero"

\* ------------------------------------------------------------- arithmetic
Abs(n) == IF n < 0 THEN -n ELSE n

\* Python round(): nearest integer, ties to even, of the rational n/d, d > 0.
RoundHalfEven(n, d) ==
    LET q == n \div d
        r == n % d
    IN  IF 2 * r < d THEN q
        ELSE IF 2 * r > d THEN q + 1
        ELSE IF q % 2 = 0 THEN q ELSE q + 1

\* KiROUND: nearest integer, ties away from zero, of the rational n/d, d > 0.
RoundHalfAway(n, d) ==
    IF n >= 0 THEN (2 * n + d) \div (2 * d)
    ELSE -((2 * (-n) + d) \div (2 * d))

\* pcbnew.FromMM
FromMM(v) == RoundHalfAway(v, InputPerIU)

\* Mutant of TooFewSplits: the guard written num_splits < 0.
TooFewSplitsOffByOne(n) == n < 0

\* if num_splits < 1
TooFewSplits(n) == n < 1

\* group_width_iu
GroupWidth(w, s, n) == (w * n) + (s * (n - 1))

\* direction = end - start
Direction(t) == Pt(t.end.x - t.start.x, t.end.y - t.start.y)

\* length = (dx**2 + dy**2) ** 0.5
Length(d) ==
    LET sq == d.x * d.x + d.y * d.y
    IN  CHOOSE r \in 0..(Abs(d.x) + Abs(d.y)) : r * r = sq

\* Mutant of Offset2: the half width of the first split is left out.
Offset2NoHalfWidth(i, w, s, gw) == -gw + 2 * i * (w + s)

\* Twice offset_iu for split i.
Offset2(i, w, s, gw) == -gw + 2 * i * (w + s) + w

\* Mutant of Shift: the perpendicular taken in the other rotational sense,
\* shift_vec = (unit_dy, -unit_dx).
ShiftClockwise(d, len, off2) ==
    Pt(RoundHalfEven(d.y * off2, 2 * len), RoundHalfEven((-d.x) * off2, 2 * len))

\* shift = (round(shift_vec_x * offset_iu), round(shift_vec_y * offset_iu))
\* with shift_vec = (-unit_dy, unit_dx), unit = direction / length.
Shift(d, len, off2) ==
    Pt(RoundHalfEven((-d.y) * off2, 2 * len), RoundHalfEven(d.x * off2, 2 * len))

Plus(p, v) == Pt(p.x + v.x, p.y + v.y)

\* Mutant of NewTrack: t.SetLayer(layer) is left out, the track stays on the
\* default layer.
NewTrackNoLayer(n, start_pos, end_pos, layer, net_code, width, shift) ==
    [id |-> n, kind |-> "TRACK", start |-> Plus(start_pos, shift),
     end |-> Plus(end_pos, shift), layer |-> F_Cu, net |-> net_code,
     width |-> width]

\* The new track of one pass of the inner loop.
NewTrack(n, start_pos, end_pos, layer, net_code, width, shift) ==
    [id |-> n, kind |-> "TRACK", start |-> Plus(start_pos, shift),
     end |-> Plus(end_pos, shift), layer |-> layer, net |-> net_code,
     width |-> width]

RECURSIVE SelectByNetReversed(_, _)
\* Mutant of SelectByNet: matches are inserted at the front of the list.
SelectByNetReversed(all, name) ==
    IF all = <<>> THEN <<>>
    ELSE IF NetNameOf(Head(all).net) = name
         THEN SelectByNetReversed(Tail(all), name) \o <<Head(all)>>
         ELSE SelectByNetReversed(Tail(all), name)

\* Mutant of SelectByNet: the net name test is left out.
SelectEveryTrack(all, name) == all

RECURSIVE SelectByNet(_, _)
\* Stage 1: the tracks of the enumeration whose net name is the chosen one.
SelectByNet(all, name) ==
    IF all = <<>> THEN <<>>
    ELSE IF GetNetname(Head(all)) = name
         THEN <<Head(all)>> \o SelectByNet(Tail(all), name)
         ELSE SelectByNet(Tail(all), name)

RECURSIVE RemoveId(_, _)
\* board.Remove(track)
RemoveId(all, n) ==
    IF all = <<>> THEN <<>>
    ELSE IF Head(all).id = n THEN RemoveId(Tail(all), n)
         ELSE <<Head(all)>> \o RemoveId(Tail(all), n)

\* ------------------------------------------------------------------ state
VARIABLES
    pc,                 \* position in Run / split_tracks
    tracks,             \* board.GetTracks(): sequence of items
    groups,             \* the board's groups: sequence of [id, items]
    nextId,             \* next fresh handle
    settings,           \* dialog.get_settings()
    msg,                \* last wx.MessageBox, or the exception raised
    split_width_iu, internal_sep_iu, group_width_iu,
    tracks_to_process,  \* stage 1 result
    k,                  \* index of the outer loop in tracks_to_process
    track,              \* the outer loop's track
    new_group,          \* handle of the group of the current track
    i,                  \* index of the inner loop
    new_tracks_count,
    board0,             \* history: the board's tracks when Run started
    clusters            \* history: per processed track, its group, its new
                        \* tracks and twice the offset_iu computed for each

vars == <<pc, tracks, groups, nextId, settings, msg, split_width_iu,
          internal_sep_iu, group_width_iu, tracks_to_process, k, track,
          new_group, i, new_tracks_count, board0, clusters>>

locals == <<split_width_iu, internal_sep_iu, group_width_iu, tracks_to_process,
            k, track, new_group, i, new_tracks_count>>

board == <<tracks, groups, nextId>>

Init ==
    /\ pc = "idle"
    /\ \E n \in 0..MaxTracks :
         \E f \in [1..n -> Catalog] :
            tracks = [j \in 1..n |-> WithId(f[j], j)]
    /\ groups = <<>>
    /\ nextId = Len(tracks) + 1
    /\ settings = NoSettings
    /\ msg = MsgNone
    /\ split_width_iu = 0
    /\ internal_sep_iu = 0
    /\ group_width_iu = 0
    /\ tracks_to_process = <<>>
    /\ k = 0
    /\ track = NoTrack
    /\ new_group = 0
    /\ i = 0
    /\ new_tracks_count = 0
    /\ board0 = tracks
    /\ clusters = <<>>

\* ---------------------------------------------------------------- actions
\* Run: the dialog is cancelled.
Cancel ==
    /\ pc = "idle"
    /\ pc' = "done"
    /\ UNCHANGED <<board, settings, msg, locals, board0, clusters>>

\* Run: OK pressed, get_settings() returns None.
InvalidInput ==
    /\ pc = "idle"
    /\ msg' = MsgInvalidInput
    /\ pc' = "done"
    /\ UNCHANGED <<board, settings, locals, board0, clusters>>

\* Run: OK pressed with parsable numbers; split_tracks is entered.
RunOk ==
    /\ pc = "idle"
    /\ \E s \in Settings : settings' = s
    /\ pc' = "split_tracks"
    /\ UNCHANGED <<board, msg, locals, board0, clusters>>

\* split_tracks: num_splits < 1.
RejectNumSplits ==
    /\ pc = "split_tracks"
    /\ TooFewSplits(settings.num_splits)
    /\ msg' = MsgSplits
    /\ pc' = "done"
    /\ UNCHANGED <<board, settings, locals, board0, clusters>>

\* split_tracks: conversion to internal units.
ConvertUnits ==
    /\ pc = "split_tracks"
    /\ ~TooFewSplits(settings.num_splits)
    /\ split_width_iu' = FromMM(settings.split_width)
    /\ internal_sep_iu' = FromMM(settings.internal_sep)
    /\ group_width_iu' = GroupWidth(FromMM(settings.split_width),
                                    FromMM(settings.internal_sep),
                                    settings.num_splits)
    /\ pc' = "stage1"
    /\ UNCHANGED <<board, settings, msg, tracks_to_process, k, track, new_group,
                   i, new_tracks_count, board0, clusters>>

\* Stage 1 finds nothing.
Stage1Empty ==
    /\ pc = "stage1"
    /\ SelectByNet(tracks, settings.net_name) = <<>>
    /\ tracks_to_process' = <<>>
    /\ msg' = MsgNoTracks
    /\ pc' = "done"
    /\ UNCHANGED <<board, settings, split_width_iu, internal_sep_iu,
                   group_width_iu, k, track, new_group, i, new_tracks_count,
                   board0, clusters>>

\* Stage 1 finds tracks.
Stage1Found ==
    /\ pc = "stage1"
    /\ SelectByNet(tracks, settings.net_name) # <<>>
    /\ tracks_to_process' = SelectByNet(tracks, settings.net_name)
    /\ k' = 1
    /\ pc' = "stage2"
    /\ UNCHANGED <<board, settings, msg, split_width_iu, internal_sep_iu,
                   group_width_iu, track, new_group, i, new_tracks_count,
                   board0, clusters>>

\* Stage 2, head of the outer loop body: read the track, add its group,
\* compute the unit direction (which raises on a zero length).
BeginTrack ==
    /\ pc = "stage2"
    /\ k <= Len(tracks_to_process)
    /\ track' = tracks_to_process[k]
    /\ new_group' = nextId
    /\ groups' = Append(groups, [id |-> nextId, items |-> <<>>])
    /\ nextId' = nextId + 1
    /\ clusters' = Append(clusters, [orig |-> tracks_to_process[k].id,
                                     group |-> nextId, members |-> <<>>,
                                     offsets2 |-> <<>>])
    /\ IF Length(Direction(tracks_to_process[k])) = 0
       THEN /\ msg' = MsgZeroDivision
            /\ pc' = "raised"
            /\ i' = i
       ELSE /\ msg' = msg
            /\ pc' = "split"
            /\ i' = 0
    /\ UNCHANGED <<tracks, settings, split_width_iu, internal_sep_iu,
                   group_width_iu, tracks_to_process, k, new_tracks_count, board0>>

\* Stage 2, one pass of the inner loop.
AddSplit ==
    /\ pc = "split"
    /\ i < settings.num_splits
    /\ LET d == Direction(track)
           off2 == Offset2(i, split_width_iu, internal_sep_iu, group_width_iu)
           shift == Shift(d, Length(d), off2)
           t == NewTrack(nextId, track.start, track.end, track.layer, track.net,
                         split_width_iu, shift)
       IN  /\ tracks' = Append(tracks, t)
           /\ groups' = [g \in 1..Len(groups) |->
                           IF groups[g].id = new_group
                           THEN [groups[g] EXCEPT !.items = Append(@, nextId)]
                           ELSE groups[g]]
           /\ clusters' = [clusters EXCEPT ![Len(clusters)].members = Append(@, nextId),
                                            ![Len(clusters)].offsets2 = Append(@, off2)]
    /\ nextId' = nextId + 1
    /\ i' = i + 1
    /\ new_tracks_count' = new_tracks_count + 1
    /\ UNCHANGED <<pc, settings, msg, split_width_iu, internal_sep_iu,
                   group_width_iu, tracks_to_process, k, track, new_group, board0>>

\* Stage 2, end of the outer loop body: board.Remove(track).
RemoveOriginal ==
    /\ pc = "split"
    /\ ~(i < settings.num_splits)
    /\ tracks' = RemoveId(tracks, track.id)
    /\ k' = k + 1
    /\ pc' = "stage2"
    /\ UNCHANGED <<groups, nextId, settings, msg, split_width_iu, internal_sep_iu,
                   group_width_iu, tracks_to_process, track, new_group, i,
                   new_tracks_count, board0, clusters>>

\* Finalization: the summary message.
Finish ==
    /\ pc = "stage2"
    /\ k > Len(tracks_to_process)
    /\ msg' = MsgFinished
    /\ pc' = "done"
    /\ UNCHANGED <<board, settings, locals, board0, clusters>>

Next ==
    \/ Cancel
    \/ InvalidInput
    \/ RunOk
    \/ RejectNumSplits
    \/ ConvertUnits
    \/ Stage1Empty
    \/ Stage1Found
    \/ BeginTrack
    \/ AddSplit
    \/ RemoveOriginal
    \/ Finish

Spec == Init /\ [][Next]_vars

\* ------------------------------------------------------ claim vocabulary
Range(f) == { f[j] : j \in DOMAIN f }
Ids(all) == { all[j].id : j \in 1..Len(all) }
OnBoard(n) == n \in Ids(tracks)
BoardTrack(n) == tracks[CHOOSE j \in 1..Len(tracks) : tracks[j].id = n]
Degenerate(t) == t.start = t.end
Minus(p, q) == Pt(p.x - q.x, p.y - q.y)
Sgn(n) == IF n > 0 THEN 1 ELSE IF n < 0 THEN -1 ELSE 0

\* split_tracks was entered with these settings.
Started == settings \in Settings
\* The run is over: Run returned, or an exception left it.
Ended == pc \in {"done", "raised"}
\* The configuration in internal units.
CfgWidth == FromMM(settings.split_width)
CfgSep == FromMM(settings.internal_sep)
CfgCount == settings.num_splits
ValidConfig == Started /\ CfgCount >= 1 /\ CfgWidth > 0 /\ CfgSep >= 0
\* The outer loop has finished with the c-th selected track.
ClusterDone(c) == c \in 1..Len(clusters) /\ k > c
\* The board holds straight tracks only.
AllStraight == \A j \in 1..Len(board0) : board0[j].kind = "TRACK"
BoardUntouched == tracks = board0 /\ groups = <<>>
\* No item of the board carries the chosen net name.
NoMatch == \A j \in 1..Len(board0) : GetNetname(board0[j]) # settings.net_name

RECURSIVE SumSeq(_)
SumSeq(q) == IF q = <<>> THEN 0 ELSE Head(q) + SumSeq(Tail(q))

\* ------------------------------------------------------------------- C1
\* C1: with a valid configuration, splitting a segment with start # end
\* produces exactly splitCount new segments, each with the original's layer,
\* the original's net and width splitWidth.
C1_ClusterShape ==
    /\ \A c \in 1..Len(clusters) :
         LET o == tracks_to_process[c]
             mem == clusters[c].members
         IN  (ValidConfig /\ ClusterDone(c) /\ ~Degenerate(o)) =>
                /\ Len(mem) = CfgCount
                /\ Cardinality(Range(mem)) = CfgCount
                /\ \A m \in Range(mem) :
                      /\ m \notin Ids(board0)
                      /\ OnBoard(m)
                      /\ BoardTrack(m).layer = o.layer
                      /\ BoardTrack(m).net = o.net
                      /\ BoardTrack(m).width = CfgWidth
    /\ (ValidConfig /\ pc = "done" /\ msg = MsgFinished) =>
          Cardinality(Ids(tracks) \ Ids(board0)) = CfgCount * Len(tracks_to_process)

C1_Witness ==
    /\ ValidConfig /\ pc = "done" /\ msg = MsgFinished
    /\ CfgCount = 3
    /\ Len(tracks_to_process) = 2
    /\ \E c \in 1..2 : tracks_to_process[c].layer = B_Cu

\* ------------------------------------------------------------------- C2
\* C2: a run with splitCount < 1 ends with the split-count error before any
\* geometry: no segment is selected or read, and the board's segments and
\* groups are unchanged.
C2_InvalidSplitCount ==
    (Started /\ CfgCount < 1 /\ pc # "split_tracks") =>
        /\ pc = "done"
        /\ msg = MsgSplits
        /\ BoardUntouched
        /\ tracks_to_process = <<>>
        /\ track = NoTrack
        /\ clusters = <<>>

C2_Witness ==
    /\ Started /\ CfgCount < 1 /\ pc = "done" /\ msg = MsgSplits
    /\ \E j \in 1..Len(board0) : GetNetname(board0[j]) = settings.net_name

\* ------------------------------------------------------------------- C3
\* C3: a run with splitWidth <= 0 or internalSeparation < 0 (and a split
\* count that is valid, on a board of straight tracks of non-zero length of
\* which some match)
\* ends with a configuration error and leaves the board's segments and
\* groups as they were.
C3_InvalidWidthOrSeparation ==
    (Started /\ Ended /\ CfgCount >= 1 /\ (CfgWidth <= 0 \/ CfgSep < 0)
       /\ AllStraight /\ ~NoMatch
       /\ \A j \in 1..Len(board0) : ~Degenerate(board0[j])) =>
        /\ msg \in {MsgInvalidInput, MsgSplits}
        /\ BoardUntouched

\* ------------------------------------------------------------------- C4
\* C4: with a valid configuration on a board of straight tracks, a selected zero-length segment is
\* skipped without an exception and stays on the board, and every other
\* selected segment is split (removed and replaced).
C4_DegenerateSkipped ==
    (ValidConfig /\ Ended /\ AllStraight) =>
        /\ pc # "raised"
        /\ \A j \in 1..Len(tracks_to_process) :
              LET o == tracks_to_process[j]
              IN  IF Degenerate(o)
                  THEN OnBoard(o.id)
                  ELSE /\ ~OnBoard(o.id)
                       /\ \E c \in 1..Len(clusters) :
                             /\ clusters[c].orig = o.id
                             /\ Len(clusters[c].members) = CfgCount

\* ------------------------------------------------------------------- C5
\* C5: when a run with a valid configuration on a board of straight tracks
\* ends, normally or by an exception, each selected original
\* is either on the board with no replacement and no group made for it on
\* the board, or off the board with all splitCount replacements and exactly
\* one new group holding exactly those replacements on the board.
C5_AllOrNothing ==
    (ValidConfig /\ Ended /\ AllStraight) =>
        \A j \in 1..Len(tracks_to_process) :
            LET o == tracks_to_process[j]
                cl == { c \in 1..Len(clusters) : clusters[c].orig = o.id }
                GroupsOf(c) == { g \in 1..Len(groups) : groups[g].id = clusters[c].group }
            IN  \/ /\ OnBoard(o.id)
                   /\ \A c \in cl :
                         /\ GroupsOf(c) = {}
                         /\ \A m \in Range(clusters[c].members) : ~OnBoard(m)
                \/ /\ ~OnBoard(o.id)
                   /\ \E c \in cl :
                         /\ cl = {c}
                         /\ Len(clusters[c].members) = CfgCount
                         /\ \A m \in Range(clusters[c].members) : OnBoard(m)
                         /\ \E g \in GroupsOf(c) :
                               /\ GroupsOf(c) = {g}
                               /\ Range(groups[g].items) = Range(clusters[c].members)
                               /\ o.id \notin Range(groups[g].items)

\* ------------------------------------------------------------------- C6
\* C6: the selection step yields exactly the enumerated items whose net name
\* is the chosen one, in enumeration order, and changes nothing on the board.
C6_SelectionExact ==
    [][ pc = "stage1" =>
          LET sel == tracks_to_process'
              match == { j \in 1..Len(tracks) : GetNetname(tracks[j]) = settings.net_name }
          IN  /\ Len(sel) = Cardinality(match)
              /\ \A m \in 1..Len(sel) :
                    /\ sel[m].id \in match
                    /\ sel[m] = tracks[sel[m].id]
              /\ \A m \in 1..(Len(sel) - 1) : sel[m].id < sel[m + 1].id
              /\ tracks' = tracks /\ groups' = groups /\ nextId' = nextId
      ]_vars

C6_Witness ==
    /\ pc = "stage2" /\ k = 1
    /\ Len(board0) = 2
    /\ Len(tracks_to_process) = 1
    /\ tracks_to_process[1].id = 2

\* ------------------------------------------------------------------- C7
\* C7: in a run with a valid configuration, a via or an arc enumerated by the
\* board is never selected and never removed from the board.
C7_OnlyStraightTracks ==
    \A j \in 1..Len(board0) :
        (ValidConfig /\ board0[j].kind # "TRACK") =>
            /\ OnBoard(board0[j].id)
            /\ board0[j].id \notin Ids(tracks_to_process)

\* ------------------------------------------------------------------- C8
\* C8: with a valid configuration and a segment with start # end, the
\* offsets computed for the replacements satisfy offset_i + offset_(n-1-i) = 0
\* and sum to zero, the applied (rounded) shifts are opposite within one
\* unit, and splitCount = 1 gives one segment with zero shift on the
\* original's endpoints.
C8_SymmetricOffsets ==
    \A c \in 1..Len(clusters) :
        LET o == tracks_to_process[c]
            mem == clusters[c].members
            off == clusters[c].offsets2
            n == CfgCount
            sh(j) == Minus(BoardTrack(mem[j]).start, o.start)
        IN  (ValidConfig /\ ClusterDone(c) /\ ~Degenerate(o)) =>
               /\ Len(off) = n
               /\ \A j \in 1..n : off[j] + off[n + 1 - j] = 0
               /\ SumSeq(off) = 0
               /\ \A j \in 1..n :
                     /\ Abs(sh(j).x + sh(n + 1 - j).x) <= 1
                     /\ Abs(sh(j).y + sh(n + 1 - j).y) <= 1
                     /\ Minus(BoardTrack(mem[j]).end, o.end) = sh(j)
               /\ n = 1 =>
                     /\ off[1] = 0
                     /\ BoardTrack(mem[1]).start = o.start
                     /\ BoardTrack(mem[1]).end = o.end

C8_Witness ==
    /\ ValidConfig /\ pc = "done" /\ msg = MsgFinished
    /\ CfgCount = 3
    /\ (CfgWidth + CfgSep) % 2 = 1
    /\ \E c \in 1..Len(clusters) :
          /\ Direction(tracks_to_process[c]).x # 0
          /\ Direction(tracks_to_process[c]).y # 0

\* ------------------------------------------------------------------- C9
\* Twice the offset the formula of the claim gives for replacement i.
ClaimOffset2(ci) ==
    LET gw == CfgCount * CfgWidth + (CfgCount - 1) * CfgSep
    IN  -gw + 2 * ci * (CfgWidth + CfgSep) + CfgWidth

AxisAligned(t) ==
    (Direction(t).x = 0) # (Direction(t).y = 0)

\* The unit direction of an axis-aligned segment rotated (dx, dy) -> (-dy, dx).
Perp(t) == Pt(-Sgn(Direction(t).y), Sgn(Direction(t).x))

\* C9 as stated (for valid configurations): replacement i of an axis-aligned
\* segment has both endpoints translated by exactly perp * offset_i.
C9_ExactTranslation ==
    \A c \in 1..Len(clusters) :
        LET o == tracks_to_process[c]
            mem == clusters[c].members
        IN  (ValidConfig /\ ClusterDone(c) /\ AxisAligned(o)) =>
               \A j \in 1..Len(mem) :
                  LET t == BoardTrack(mem[j])
                      off2 == ClaimOffset2(j - 1)
                  IN  /\ 2 * Minus(t.start, o.start).x = Perp(o).x * off2
                      /\ 2 * Minus(t.start, o.start).y = Perp(o).y * off2
                      /\ 2 * Minus(t.end, o.end).x = Perp(o).x * off2
                      /\ 2 * Minus(t.end, o.end).y = Perp(o).y * off2

\* C9 amended: replacement i of an axis-aligned segment has both endpoints
\* translated by perp * offset_i rounded componentwise to the nearest integer
\* (ties to even), offset_i being the claim's formula; the offsets strictly
\* increase with i when splitWidth + internalSeparation > 0; and the segment
\* (0,0)-(1000,0) with width 140000, separation 20000, count 2 yields
\* start.y = -80000 then +80000 with start.x = 0 and end.x = 1000.
C9_RoundedTranslation ==
    \A c \in 1..Len(clusters) :
        LET o == tracks_to_process[c]
            mem == clusters[c].members
            off == clusters[c].offsets2
        IN  (ClusterDone(c) /\ AxisAligned(o)) =>
               /\ \A j \in 1..Len(mem) :
                     LET t == BoardTrack(mem[j])
                         off2 == ClaimOffset2(j - 1)
                         v == Pt(RoundHalfEven(Perp(o).x * off2, 2),
                                 RoundHalfEven(Perp(o).y * off2, 2))
                     IN  /\ off[j] = off2
                         /\ Minus(t.start, o.start) = v
                         /\ Minus(t.end, o.end) = v
               /\ (CfgWidth + CfgSep > 0) =>
                     \A j \in 1..(Len(off) - 1) : off[j] < off[j + 1]
               /\ ( /\ o.start = Pt(0, 0) /\ o.end = Pt(1000, 0)
                    /\ CfgWidth = 140000 /\ CfgSep = 20000 /\ CfgCount = 2 ) =>
                     /\ BoardTrack(mem[1]).start = Pt(0, -80000)
                     /\ BoardTrack(mem[1]).end = Pt(1000, -80000)
                     /\ BoardTrack(mem[2]).start = Pt(0, 80000)
                     /\ BoardTrack(mem[2]).end = Pt(1000, 80000)

C9_Witness ==
    /\ pc = "done" /\ msg = MsgFinished
    /\ CfgWidth = 140000 /\ CfgSep = 20000 /\ CfgCount = 2
    /\ Len(tracks_to_process) = 2
    /\ tracks_to_process[1].start = Pt(0, 0) /\ tracks_to_process[1].end = Pt(1000, 0)
    /\ tracks_to_process[2].start = Pt(200, 900)
    /\ BoardTrack(clusters[1].members[2]).start = Pt(0, 80000)

\* ------------------------------------------------------------------ C10
\* No item of another net is removed, changed or grouped, and every added
\* segment carries the selected net.
FrameOutsideNet ==
    Started =>
        /\ \A j \in 1..Len(board0) :
              GetNetname(board0[j]) # settings.net_name =>
                 /\ board0[j] \in Range(tracks)
                 /\ \A g \in 1..Len(groups) : board0[j].id \notin Range(groups[g].items)
        /\ \A j \in 1..Len(tracks) :
              tracks[j].id \notin Ids(board0) =>
                 GetNetname(tracks[j]) = settings.net_name

\* C10 as stated: the frame condition, and whenever no segment matches the
\* chosen net name the run is reported as an informational no-op.
C10_FrameAndNoOp ==
    /\ FrameOutsideNet
    /\ (Started /\ Ended /\ NoMatch) => (msg = MsgNoTracks /\ BoardUntouched)

\* C10 amended: the frame condition, and when no segment matches the chosen
\* net name and splitCount >= 1 the run is reported as an informational
\* no-op with the board's segments and groups unchanged.
C10_FrameAndNoOpValidCount ==
    /\ FrameOutsideNet
    /\ (Started /\ Ended /\ NoMatch /\ CfgCount >= 1) =>
          (msg = MsgNoTracks /\ BoardUntouched)

C10_Witness ==
    /\ pc = "done" /\ msg = MsgFinished
    /\ Len(board0) = 2
    /\ Len(tracks_to_process) = 1
    /\ \E j \in 1..2 : GetNetname(board0[j]) # settings.net_name

====
